---- MODULE Spec2Model ----
(***************************************************************************)
(* Resume analyzer (RAG): rag_pipeline.py and the Streamlit script app.py. *)
(*                                                                         *)
(* Texts are sequences of one-character strings.  The persisted Chroma     *)
(* collection is a sequence of entries in insertion order.  One action of  *)
(* Spec is one user interaction together with the whole script run that    *)
(* Streamlit performs for it, or one direct call of a pipeline function.   *)
(* SpecChunk applies load_and_chunk_pdf to every page text up to           *)
(* MaxPageLen characters.                                                  *)
(***************************************************************************)
EXTENDS Integers, Sequences, FiniteSets, TLC

\* ------------------------------------------------------------------------
\* Configuration (rag_pipeline.py, lines 14-19)
\* ------------------------------------------------------------------------

\* chunk_size and chunk_overlap, scaled down from 500 and 50 so that every
\* page text up to MaxPageLen characters can be enumerated.
CHUNK_SIZE == 4

CHUNK_OVERLAP == 2

COLLECTION_NAME == "resume_collection"

\* k of the retriever build_rag_chain configures.
RETRIEVER_K == 4

\* Python's None, comparable with every record of the model.
None == [type |-> "NoneType"]

\* ------------------------------------------------------------------------
\* RecursiveCharacterTextSplitter as configured by load_and_chunk_pdf:
\* separators paragraph break, line break, space, character; the separator
\* is kept at the head of the piece that follows it; every emitted passage
\* is stripped of leading and trailing whitespace.
\* A piece or passage is a span <<lo, hi>> of positions of the page text.
\* ------------------------------------------------------------------------

NL == "\n"

Whitespace == {" ", NL}

separators == << <<NL, NL>>, <<NL>>, <<" ">>, <<>> >>

PieceLen(r) == r[2] - r[1] + 1

RECURSIVE TotalLen(_)
TotalLen(pieces) ==
    IF pieces = <<>> THEN 0 ELSE PieceLen(Head(pieces)) + TotalLen(Tail(pieces))

\* re.search / re.split: the leftmost non-overlapping occurrences of sep in
\* text[pos..hi].
RECURSIVE MatchStarts(_, _, _, _)
MatchStarts(text, sep, pos, hi) ==
    IF pos + Len(sep) - 1 > hi THEN <<>>
    ELSE IF SubSeq(text, pos, pos + Len(sep) - 1) = sep
         THEN <<pos>> \o MatchStarts(text, sep, pos + Len(sep), hi)
         ELSE MatchStarts(text, sep, pos + 1, hi)

\* _split_text_with_regex with keep_separator=True: the text before the
\* first separator, then each separator with the text that follows it;
\* the empty separator splits into single characters; empty pieces dropped.
split_text_with_regex(text, lo, hi, sep) ==
    IF sep = <<>>
    THEN [i \in 1..(hi - lo + 1) |-> <<lo + i - 1, lo + i - 1>>]
    ELSE LET m == MatchStarts(text, sep, lo, hi)
             first == IF m = <<>> THEN <<lo, hi>> ELSE <<lo, m[1] - 1>>
             rest == [i \in 1..Len(m) |->
                        <<m[i], IF i < Len(m) THEN m[i + 1] - 1 ELSE hi>>]
         IN  SelectSeq(<<first>> \o rest, LAMBDA r : r[1] <= r[2])

\* str.strip() on the span lo..hi; an empty result has lo > hi.
RECURSIVE StripLeft(_, _, _)
StripLeft(text, lo, hi) ==
    IF lo <= hi /\ text[lo] \in Whitespace THEN StripLeft(text, lo + 1, hi) ELSE lo

RECURSIVE StripRight(_, _, _)
StripRight(text, lo, hi) ==
    IF lo <= hi /\ text[hi] \in Whitespace THEN StripRight(text, lo, hi - 1) ELSE hi

\* _join_docs with separator "": the joined pieces, stripped; <<>> stands
\* for the None returned for an empty text, else the one passage.
join_docs(text, current) ==
    IF current = <<>> THEN <<>>
    ELSE LET lo == current[1][1]
             hi == current[Len(current)][2]
             slo == StripLeft(text, lo, hi)
             shi == StripRight(text, slo, hi)
         IN  IF slo > shi THEN <<>> ELSE << <<slo, shi>> >>

\* The condition of the while loop of _merge_splits (separator length 0).
KeepPoppingNoOverlapLimit(total, len) ==
    total + len > CHUNK_SIZE /\ total > 0

KeepPopping(total, len) ==
    total > CHUNK_OVERLAP \/ (total + len > CHUNK_SIZE /\ total > 0)

RECURSIVE PopWhile(_, _)
PopWhile(current, len) ==
    IF current # <<>> /\ KeepPopping(TotalLen(current), len)
    THEN PopWhile(Tail(current), len)
    ELSE current

\* _merge_splits: from piece i on, with current_doc and the passages emitted so far.
RECURSIVE MergeFrom(_, _, _, _, _)
MergeFrom(text, splits, i, current, docs) ==
    IF i > Len(splits) THEN docs \o join_docs(text, current)
    ELSE LET d == splits[i]
             len == PieceLen(d)
         IN  IF TotalLen(current) + len > CHUNK_SIZE /\ current # <<>>
             THEN MergeFrom(text, splits, i + 1,
                            Append(PopWhile(current, len), d),
                            docs \o join_docs(text, current))
             ELSE MergeFrom(text, splits, i + 1, Append(current, d), docs)

merge_splits(text, splits) == MergeFrom(text, splits, 1, <<>>, <<>>)

\* The separator _split_text picks: the index of the first separator that is
\* empty or occurs in the text.
RECURSIVE PickSeparator(_, _, _, _, _)
PickSeparator(text, lo, hi, seps, i) ==
    IF i >= Len(seps) THEN Len(seps)
    ELSE IF seps[i] = <<>> \/ MatchStarts(text, seps[i], lo, hi) # <<>>
         THEN i
         ELSE PickSeparator(text, lo, hi, seps, i + 1)

\* _split_text: pieces shorter than chunk_size are merged, a longer piece
\* flushes the merge and is split again with the remaining separators.
RECURSIVE split_text_rec(_, _, _, _)
RECURSIVE SplitLoop(_, _, _, _, _, _)
split_text_rec(text, lo, hi, seps) ==
    LET i == PickSeparator(text, lo, hi, seps, 1)
        separator == seps[i]
        new_separators == IF separator = <<>> THEN <<>>
                          ELSE SubSeq(seps, i + 1, Len(seps))
        splits == split_text_with_regex(text, lo, hi, separator)
    IN  SplitLoop(text, splits, 1, <<>>, <<>>, new_separators)

SplitLoop(text, splits, i, good, final, new_separators) ==
    IF i > Len(splits) THEN final \o merge_splits(text, good)
    ELSE LET s == splits[i]
         IN  IF PieceLen(s) < CHUNK_SIZE
             THEN SplitLoop(text, splits, i + 1, Append(good, s), final,
                            new_separators)
             ELSE SplitLoop(text, splits, i + 1, <<>>,
                            final \o merge_splits(text, good)
                                  \o (IF new_separators = <<>> THEN <<s>>
                                      ELSE split_text_rec(text, s[1], s[2],
                                                          new_separators)),
                            new_separators)

\* split_text of one page: the spans of its passages, in order.
split_text(text) == split_text_rec(text, 1, Len(text), separators)

\* split_documents: one chunk per passage, carrying the text of the passage
\* and the zero-based index of its page (PyPDFLoader's metadata).
RECURSIVE ChunksOfPages(_, _)
ChunksOfPages(pages, p) ==
    IF p > Len(pages) THEN <<>>
    ELSE LET text == pages[p]
             passages == split_text(text)
         IN  [i \in 1..Len(passages) |->
                [page_content |-> SubSeq(text, passages[i][1], passages[i][2]),
                 page |-> p - 1]]
             \o ChunksOfPages(pages, p + 1)

load_and_chunk_pdf(pages) == ChunksOfPages(pages, 1)

\* ------------------------------------------------------------------------
\* State
\* ------------------------------------------------------------------------

VARIABLES
    OPENAI_API_KEY,     \* os.getenv("OPENAI_API_KEY"): a key, or None
    collection_exists,  \* chroma_db holds a collection named COLLECTION_NAME
    collection,         \* its entries, in insertion order
    tmp_files,          \* number of temporary .pdf files on disk
    uploaded_file,      \* st.file_uploader: the file in the uploader, or None
    show_comparison,    \* st.toggle "Show RAG vs No-RAG comparison"
    rag_chain,          \* st.session_state.rag_chain
    resume_processed,   \* st.session_state.resume_processed
    chunk_count,        \* st.session_state.chunk_count
    qa_history,         \* st.session_state.qa_history
    current_answer,     \* st.session_state.current_answer
    last_call,          \* the most recent call of a pipeline function and its outcome
    builds,             \* the files of the successful create_vector_store calls, in order
    pdf_pages,          \* SpecChunk: the pages PyPDFLoader returned
    chunks,             \* SpecChunk: the chunks load_and_chunk_pdf returned for them
    spans               \* SpecChunk: per page, the spans of its passages

disk_vars == <<collection_exists, collection, tmp_files>>

widget_vars == <<uploaded_file, show_comparison>>

upload_vars == <<rag_chain, resume_processed, chunk_count>>

answer_vars == <<qa_history, current_answer>>

chunk_vars == <<pdf_pages, chunks, spans>>

vars == <<OPENAI_API_KEY, disk_vars, widget_vars, upload_vars, answer_vars,
          last_call, builds, chunk_vars>>

\* ------------------------------------------------------------------------
\* Inputs: the files a user uploads, the questions, the outcomes of the
\* external services.
\* ------------------------------------------------------------------------

CV_A == [name |-> "cv_a.pdf"]

CV_B == [name |-> "cv_b.pdf"]

CORRUPT == [name |-> "corrupt.pdf"]

Files == {CV_A, CV_B, CORRUPT}

\* PyPDFLoader(path).load(): the page texts of a readable file.
PdfPages(file) ==
    IF file = CV_A THEN << <<"a", "b", " ", "c", "d">>, <<"e", "f">> >>
    ELSE IF file = CV_B THEN << <<"g", "h", NL, "i", "j">> >>
    ELSE <<>>

Readable(file) == file \in {CV_A, CV_B}

Questions == {"What are my strongest technical skills?"}

\* What the generation service may answer.
AnswerTexts == {"grounded answer", "I don't see that information in the resume."}

\* Similarity scores the embedding space may give n entries for a query: one
\* entry closest to the query, or all entries equally close.
ScoreTables(n) == {[i \in 1..n |-> IF i = best THEN 1 ELSE 0] : best \in 0..n}

\* Bounds of the model.
MaxBuilds == 2

MaxHistory == 1

MaxTmpFiles == 1

NoError == "no error"

NotCalled == [fn |-> "none", error |-> NoError]

\* ------------------------------------------------------------------------
\* rag_pipeline.py
\* ------------------------------------------------------------------------

\* OpenAIEmbeddings(openai_api_key=OPENAI_API_KEY, ...) and
\* Chroma.from_documents(chunks, embeddings, COLLECTION_NAME, persist dir):
\* the client is refused without a key; Chroma gets or creates the named
\* collection, embeds all the texts, and adds one entry per chunk.
create_vector_store(doc_chunks, embed_ok) ==
    IF OPENAI_API_KEY = None
    THEN [error |-> "ConfigurationError",
          collection_exists |-> collection_exists, collection |-> collection]
    ELSE IF ~embed_ok
    THEN [error |-> "EmbeddingServiceError",
          collection_exists |-> TRUE, collection |-> collection]
    ELSE [error |-> NoError,
          collection_exists |-> TRUE, collection |-> collection \o doc_chunks]

\* load_existing_vector_store: line 95 reads the name embeddings, which is
\* bound neither in the function (line 88 binds embeddingd) nor in the module.
load_existing_vector_store ==
    [error |-> "NameError", result |-> None]

\* build_rag_chain: a RetrievalQA chain over a retriever of the collection
\* with search_kwargs k = 4, returning its source documents.
build_rag_chain(file) ==
    [retriever |-> [collection_name |-> COLLECTION_NAME, k |-> RETRIEVER_K],
     built_from |-> file]

\* Chroma similarity search: the k entries of highest score, ties in
\* insertion order; all the entries when there are fewer than k.
RECURSIVE RankFrom(_, _, _)
RankFrom(remaining, score, k) ==
    IF remaining = {} \/ k = 0 THEN <<>>
    ELSE LET best == CHOOSE i \in remaining :
                        \A j \in remaining :
                            \/ score[i] > score[j]
                            \/ score[i] = score[j] /\ i <= j
         IN  <<best>> \o RankFrom(remaining \ {best}, score, k - 1)

similarity_search_unbounded(entries, score, k) ==
    LET order == RankFrom(DOMAIN entries, score, Len(entries))
    IN  [i \in 1..Len(order) |-> entries[order[i]]]

similarity_search(entries, score, k) ==
    LET order == RankFrom(DOMAIN entries, score, k)
    IN  [i \in 1..Len(order) |-> entries[order[i]]]

\* answer_with_rag: the chain retrieves, the generation service answers, and
\* the source documents are returned as {content, page}.
answer_with_rag(chain, question, score, generated) ==
    IF chain = None
    THEN [error |-> "AttributeError", result |-> None]
    ELSE IF generated = None
    THEN [error |-> "GenerationServiceError", result |-> None]
    ELSE LET source_docs == similarity_search(collection, score, chain.retriever.k)
         IN  [error |-> NoError,
              result |-> [answer |-> generated.text,
                          sources |-> [i \in 1..Len(source_docs) |->
                                         [content |-> source_docs[i].page_content,
                                          page |-> source_docs[i].page]]]]

\* answer_without_rag: llm.invoke returns a message object, and line 204
\* calls .strip() on it, which a message does not have.
answer_without_rag(question, generated) ==
    IF generated = None
    THEN [error |-> "GenerationServiceError", result |-> None]
    ELSE [error |-> "AttributeError", result |-> None]

\* process_uploaded_pdf: the temporary file is created and written before
\* the try block; the finally clause of the try block unlinks it.
process_uploaded_pdf(file, write_ok, embed_ok) ==
    IF ~write_ok
    THEN [error |-> "OSError", result |-> None, built |-> FALSE,
          tmp_files |-> tmp_files + 1,
          collection_exists |-> collection_exists, collection |-> collection]
    ELSE IF ~Readable(file)
    THEN [error |-> NoError, built |-> FALSE,
          result |-> [rag_chain |-> None, chunk_count |-> 0, success |-> FALSE,
                      message |-> "Error processing PDF: DocumentLoadError"],
          tmp_files |-> tmp_files,
          collection_exists |-> collection_exists, collection |-> collection]
    ELSE LET doc_chunks == load_and_chunk_pdf(PdfPages(file))
             store == create_vector_store(doc_chunks, embed_ok)
         IN  IF store.error # NoError
             THEN [error |-> NoError, built |-> FALSE,
                   result |-> [rag_chain |-> None, chunk_count |-> 0,
                               success |-> FALSE,
                               message |-> "Error processing PDF: " \o store.error],
                   tmp_files |-> tmp_files,
                   collection_exists |-> store.collection_exists,
                   collection |-> store.collection]
             ELSE [error |-> NoError, built |-> TRUE,
                   result |-> [rag_chain |-> build_rag_chain(file),
                               chunk_count |-> Len(doc_chunks),
                               success |-> TRUE,
                               message |-> "Resume processed successfully!"],
                   tmp_files |-> tmp_files,
                   collection_exists |-> store.collection_exists,
                   collection |-> store.collection]

\* ------------------------------------------------------------------------
\* app.py
\* ------------------------------------------------------------------------

\* Lines 144-150: what the upload block stores from a returned tuple.
upload_handling_ignoring_success(ret) ==
    [rag_chain |-> ret.rag_chain, resume_processed |-> TRUE,
     chunk_count |-> ret.chunk_count]

upload_handling(ret) ==
    IF ret.success
    THEN [rag_chain |-> ret.rag_chain, resume_processed |-> TRUE,
          chunk_count |-> ret.chunk_count]
    ELSE [rag_chain |-> rag_chain, resume_processed |-> resume_processed,
          chunk_count |-> chunk_count]

\* Lines 134-150 of one script run with `file` in the uploader: the file is
\* processed when the session has no processed resume; an exception that
\* process_uploaded_pdf raises ends the script run.
UploadBlock(file, write_ok, embed_ok) ==
    IF file # None /\ ~resume_processed
    THEN LET call == process_uploaded_pdf(file, write_ok, embed_ok)
             session == IF call.error = NoError THEN upload_handling(call.result)
                        ELSE [rag_chain |-> rag_chain,
                              resume_processed |-> resume_processed,
                              chunk_count |-> chunk_count]
         IN  /\ call.tmp_files <= MaxTmpFiles
             /\ call.built => Len(builds) < MaxBuilds
             /\ tmp_files' = call.tmp_files
             /\ collection_exists' = call.collection_exists
             /\ collection' = call.collection
             /\ builds' = IF call.built THEN Append(builds, file) ELSE builds
             /\ rag_chain' = session.rag_chain
             /\ resume_processed' = session.resume_processed
             /\ chunk_count' = session.chunk_count
             /\ last_call' = [fn |-> "process_uploaded_pdf", file |-> file,
                              error |-> call.error, result |-> call.result]
    ELSE UNCHANGED <<disk_vars, upload_vars, last_call, builds>>

\* The user puts a file in the uploader; the script runs.
UploadFile ==
    \E file \in Files, write_ok \in BOOLEAN, embed_ok \in BOOLEAN :
        /\ uploaded_file' = file
        /\ UploadBlock(file, write_ok, embed_ok)
        /\ UNCHANGED <<OPENAI_API_KEY, show_comparison, answer_vars, chunk_vars>>

\* The user removes the file from the uploader; the script runs its else branch.
RemoveFile ==
    /\ uploaded_file # None
    /\ uploaded_file' = None
    /\ UNCHANGED <<OPENAI_API_KEY, disk_vars, show_comparison, upload_vars,
                   answer_vars, last_call, builds, chunk_vars>>

\* The user flips the comparison toggle; the script runs.
ToggleComparison ==
    \E write_ok \in BOOLEAN, embed_ok \in BOOLEAN :
        /\ show_comparison' = ~show_comparison
        /\ UploadBlock(uploaded_file, write_ok, embed_ok)
        /\ UNCHANGED <<OPENAI_API_KEY, uploaded_file, answer_vars, chunk_vars>>

\* Lines 194-219: the user presses "Get Answer" with a question in the box.
\* The buttons are rendered only with a file in the uploader and a processed
\* resume.  An exception ends the script run before anything is stored.
GetAnswer ==
    \E question \in Questions,
       score \in ScoreTables(Len(collection)),
       generated \in {[text |-> t] : t \in AnswerTexts} \cup {None},
       baseline \in {[text |-> "generic answer"], None} :
        LET rag == answer_with_rag(rag_chain, question, score, generated)
            no_rag == IF rag.error = NoError /\ show_comparison
                      THEN answer_without_rag(question, baseline)
                      ELSE [error |-> NoError, result |-> None]
            failed == rag.error # NoError \/ no_rag.error # NoError
        IN  /\ uploaded_file # None
            /\ resume_processed
            /\ Len(qa_history) < MaxHistory
            /\ show_comparison \/ baseline = None
            /\ current_answer' =
                 IF failed THEN current_answer
                 ELSE [question |-> question,
                       rag_answer |-> rag.result.answer,
                       sources |-> rag.result.sources,
                       no_rag_answer |-> no_rag.result]
            /\ qa_history' =
                 IF failed THEN qa_history
                 ELSE Append(qa_history, [question |-> question,
                                          answer |-> rag.result.answer])
            /\ last_call' = [fn |-> "answer_with_rag", file |-> uploaded_file,
                             chain |-> rag_chain, question |-> question,
                             comparison |-> show_comparison,
                             services_ok |-> generated # None
                                             /\ (show_comparison => baseline # None),
                             error |-> IF rag.error # NoError THEN rag.error
                                       ELSE no_rag.error]
            /\ UNCHANGED <<OPENAI_API_KEY, disk_vars, widget_vars, upload_vars,
                           builds, chunk_vars>>

\* Lines 188-191: the user presses "Clear".
Clear ==
    /\ uploaded_file # None
    /\ resume_processed
    /\ qa_history' = <<>>
    /\ current_answer' = None
    /\ UNCHANGED <<OPENAI_API_KEY, disk_vars, widget_vars, upload_vars,
                   last_call, builds, chunk_vars>>

\* Lines 110-122 in a new browser session: the session state and the widgets
\* start afresh; the disk keeps what it holds.
NewSession ==
    /\ uploaded_file' = None
    /\ show_comparison' = FALSE
    /\ rag_chain' = None
    /\ resume_processed' = FALSE
    /\ chunk_count' = 0
    /\ qa_history' = <<>>
    /\ current_answer' = None
    /\ UNCHANGED <<OPENAI_API_KEY, disk_vars, last_call, builds, chunk_vars>>

\* A direct call of load_existing_vector_store.
LoadExistingVectorStore ==
    LET call == load_existing_vector_store
    IN  /\ last_call' = [fn |-> "load_existing_vector_store",
                         error |-> call.error, result |-> call.result,
                         embedding_calls |-> 0]
        /\ UNCHANGED <<OPENAI_API_KEY, disk_vars, widget_vars, upload_vars,
                       answer_vars, builds, chunk_vars>>

SessionInit ==
    /\ uploaded_file = None
    /\ show_comparison = FALSE
    /\ rag_chain = None
    /\ resume_processed = FALSE
    /\ chunk_count = 0
    /\ qa_history = <<>>
    /\ current_answer = None

Init ==
    /\ OPENAI_API_KEY \in {[str |-> "sk-key"], None}
    /\ collection_exists = FALSE
    /\ collection = <<>>
    /\ tmp_files = 0
    /\ SessionInit
    /\ last_call = NotCalled
    /\ builds = <<>>
    /\ pdf_pages = <<>>
    /\ chunks = <<>>
    /\ spans = <<>>

Next ==
    \/ UploadFile
    \/ RemoveFile
    \/ ToggleComparison
    \/ GetAnswer
    \/ Clear
    \/ NewSession
    \/ LoadExistingVectorStore

Spec == Init /\ [][Next]_vars

\* ------------------------------------------------------------------------
\* SpecChunk: load_and_chunk_pdf on every one-page document whose text has
\* at most MaxPageLen characters.
\* ------------------------------------------------------------------------

MaxPageLen == 8

Alphabet == {"a", " ", NL}

PageTexts == UNION {[1..n -> Alphabet] : n \in 0..MaxPageLen}

InitChunk ==
    /\ OPENAI_API_KEY = None
    /\ collection_exists = FALSE
    /\ collection = <<>>
    /\ tmp_files = 0
    /\ SessionInit
    /\ last_call = NotCalled
    /\ builds = <<>>
    /\ pdf_pages \in {<<text>> : text \in PageTexts}
    /\ chunks = <<>>
    /\ spans = <<>>

\* load_and_chunk_pdf applied to the loaded pages.
LoadAndChunk ==
    /\ spans = <<>>
    /\ chunks' = load_and_chunk_pdf(pdf_pages)
    /\ spans' = [p \in 1..Len(pdf_pages) |-> split_text(pdf_pages[p])]
    /\ UNCHANGED <<OPENAI_API_KEY, disk_vars, widget_vars, upload_vars,
                   answer_vars, last_call, builds, pdf_pages>>

NextChunk == LoadAndChunk

SpecChunk == InitChunk /\ [][NextChunk]_vars

\* ------------------------------------------------------------------------
\* Properties
\* ------------------------------------------------------------------------

ChunksOf(file) == load_and_chunk_pdf(PdfPages(file))

Range(seq) == {seq[i] : i \in DOMAIN seq}

SourceOf(entry) == [content |-> entry.page_content, page |-> entry.page]

EmbedFailureMessage == "Error processing PDF: EmbeddingServiceError"

\* C1: after two successive successful builds into the collection with
\* disjoint passage sets A then B, the collection holds exactly the entries
\* of B.
C1_RebuildKeepsOnlyNewest ==
    LET n == Len(builds)
    IN  (/\ n >= 2
         /\ Range(ChunksOf(builds[n - 1])) \cap Range(ChunksOf(builds[n])) = {})
        => collection = ChunksOf(builds[n])

\* C2: a process_uploaded_pdf call in which the embedding service fails
\* returns success = False and no chain, and leaves the persisted collection
\* exactly as it was: not created, not overwritten, not partly populated.
C2_FailedBuildLeavesStoreUntouched ==
    [][(/\ last_call'.fn = "process_uploaded_pdf"
        /\ last_call'.error = NoError
        /\ last_call'.result.message = EmbedFailureMessage)
       => (/\ ~last_call'.result.success
           /\ last_call'.result.rag_chain = None
           /\ collection_exists' = collection_exists
           /\ collection' = collection)]_vars

\* C3: no temporary file is left on disk after any sequence of
\* process_uploaded_pdf calls, whatever their exit paths.
C3_NoTemporaryFileLeft == tmp_files = 0

\* C4: a query is answered from a chain built on the document that is in the
\* uploader when the query is made, also when an earlier document was
\* processed before in the same session.
C4_QueryUsesChainOfCurrentUpload ==
    (/\ last_call.fn = "answer_with_rag"
     /\ last_call.error = NoError
     /\ Readable(last_call.file))
    => (last_call.chain # None /\ last_call.chain.built_from = last_call.file)

\* C5: the sources of every answer obtained from answer_with_rag on a
\* collection of n entries are exactly min(4, n) many, each of them an entry
\* of the collection.
C5_SourcesAreMinOfKAndN ==
    current_answer # None
    => (/\ Len(current_answer.sources)
             = (IF Len(collection) < 4 THEN Len(collection) ELSE 4)
        /\ \A i \in DOMAIN current_answer.sources :
              \E j \in DOMAIN collection :
                  current_answer.sources[i] = SourceOf(collection[j]))

\* A stored answer whose sources were cut to 4 of more than 4 entries.
C5_Witness ==
    /\ current_answer # None
    /\ Len(collection) > 4
    /\ Len(current_answer.sources) = 4

\* The text of the passage with the given span.
PassageText(text, span) == SubSeq(text, span[1], span[2])

Min(a, b) == IF a < b THEN a ELSE b

Max(a, b) == IF a > b THEN a ELSE b

\* The number of characters of the page that passages i and i + 1 share.
SharedChars(page_spans, i) ==
    Max(0, Min(page_spans[i][2], page_spans[i + 1][2])
           - Max(page_spans[i][1], page_spans[i + 1][1]) + 1)

C7_MissingKeyStopsAtStartup ==
    OPENAI_API_KEY = None
    => (/\ uploaded_file = None
        /\ last_call.fn \notin {"process_uploaded_pdf", "answer_with_rag"})

\* C8: once a collection is built and persisted, load_existing_vector_store
\* returns a handle on it without calling the embedding service.
C8_LoadReturnsPersistedCollection ==
    (last_call.fn = "load_existing_vector_store" /\ builds # <<>>)
    => (/\ last_call.error = NoError
        /\ last_call.result = [collection_name |-> COLLECTION_NAME]
        /\ last_call.embedding_calls = 0)

\* C9: a query with the comparison enabled, the generation service answering
\* both calls, stores one answer record with the question, the grounded
\* answer, its sources and the baseline answer, and appends one record to
\* the history.
C9_ComparisonQueryIsRecorded ==
    [][(/\ last_call' # last_call
        /\ last_call'.fn = "answer_with_rag"
        /\ last_call'.comparison
        /\ last_call'.services_ok)
       => (/\ current_answer' # None
           /\ current_answer'.question = last_call'.question
           /\ current_answer'.no_rag_answer # None
           /\ Len(qa_history') = Len(qa_history) + 1)]_vars

\* C10: resume_processed holds exactly when rag_chain is a chain returned by
\* a successful process_uploaded_pdf call, chunk_count being the chunk count
\* of that call; answer_with_rag is never called with a None chain.
C10_ProcessedIffChain ==
    /\ resume_processed <=> rag_chain # None
    /\ resume_processed
       => (/\ rag_chain.built_from \in Range(builds)
           /\ rag_chain = build_rag_chain(rag_chain.built_from)
           /\ chunk_count = Len(ChunksOf(rag_chain.built_from)))
    /\ last_call.fn = "answer_with_rag" => last_call.chain # None

\* A query answered in a session whose resume is processed, the second
\* session to build the collection.
C10_Witness ==
    /\ resume_processed
    /\ last_call.fn = "answer_with_rag"
    /\ current_answer # None
    /\ Len(builds) >= 2

====
